---- MODULE Spec2Model ----
(***************************************************************************)
(* Baseline document identification (4_identify_documents_baseline.py).    *)
(*                                                                         *)
(* The batch driver identify_documents_baseline resolves the baseline      *)
(* identification method, queries the inventories in scope and runs        *)
(* identify_documents_for_inventory on each: one pass over the inventory's *)
(* pages, ordered by (Scan.filename, Page.id), that opens documents and    *)
(* links pages to them by the is_blank and signatures fields of the pages. *)
(*                                                                         *)
(* Tables are modelled as functions from row id to row (page, scan) or as  *)
(* sequences of rows in insertion order (document, page2document,          *)
(* document_identification_method).  Rows added to a session and not yet   *)
(* committed are kept per session.  uuid4 ids are drawn from a counter.    *)
(***************************************************************************)
EXTENDS Integers, Sequences, FiniteSets

VARIABLES
    inventory,      \* table inventory: the set of inventory ids
    scan,           \* table scan: scan id -> [filename, inventory_id]
    page,           \* table page: page id -> [inventory_id, scan_id, is_blank, signatures]
    document_identification_method,  \* committed rows [id, name]
    document,       \* committed rows [id, inventory_id, method_id, part_of_id, title]
    page2document,  \* committed rows [id, page_id, document_id, index]
    uuid,           \* number of uuid4 ids issued so far
    session,        \* session -> [documents, links]: rows added, not yet committed
    pc,             \* session -> position in identify_documents_baseline
    drv,            \* session -> locals of identify_documents_baseline
    eng,            \* session -> locals of identify_documents_for_inventory
    stdout,         \* what create_identification_method printed, in order
    runs,           \* number of calls of identify_documents_baseline so far
    response        \* the manifest the web application served last

vars == <<inventory, scan, page, document_identification_method, document,
          page2document, uuid, session, pc, drv, eng, stdout, runs, response>>

tables == <<inventory, scan, page>>

(***************************************************************************)
(* Bounds of the model.                                                    *)
(***************************************************************************)
MaxPages == 4
MaxRuns == 2

Sessions == {"w1", "w2"}

(***************************************************************************)
(* Python values.                                                          *)
(***************************************************************************)
None == "None"      \* None in a boolean or text column
NoId == 0           \* None where an id or an object is expected

BASELINE_NAME == "Baseline: Empty Pages & Signatures"

\* a test "is not False", under which None counts as true
BoolTruthOfNotFalse(v) == v # "False"

\* bool(x) of an Optional[bool] column: None and False are falsy
BoolTruth(v) == v = "True"

\* bool(x) of an Optional[str] column: None and "" are falsy
StrTruth(v) == v # None /\ v # ""

\* page.is_blank used as a condition (p is a Page row)
is_blank(p) == BoolTruth(p.is_blank)

\* page.signatures used as a condition
has_signatures(p) == StrTruth(p.signatures)

(***************************************************************************)
(* Sequence helpers.                                                       *)
(***************************************************************************)
Range(f) == {f[x] : x \in DOMAIN f}

(***************************************************************************)
(* Queries.                                                                *)
(***************************************************************************)
\* a Page object: the row of table page with its primary key
PageRow(id) ==
    [id |-> id, inventory_id |-> page[id].inventory_id, scan_id |-> page[id].scan_id,
     is_blank |-> page[id].is_blank, signatures |-> page[id].signatures]

\* ORDER BY Scan.filename, Page.id
PageOrderBefore(a, b) ==
    \/ scan[page[a].scan_id].filename < scan[page[b].scan_id].filename
    \/ /\ scan[page[a].scan_id].filename = scan[page[b].scan_id].filename
       /\ a < b

RECURSIVE OrderBy(_)
OrderBy(ids) ==
    IF ids = {} THEN <<>>
    ELSE LET first == CHOOSE a \in ids : \A b \in ids \ {a} : PageOrderBefore(a, b)
         IN  <<PageRow(first)>> \o OrderBy(ids \ {first})

\* the page query without the filter on the inventory
QueryPagesOfAll(inv) ==
    OrderBy({id \in DOMAIN page : page[id].scan_id \in DOMAIN scan})

\* session.query(Page).filter(Page.inventory_id == inventory.id).join(Scan)
\*        .order_by(Scan.filename, Page.id).all()
QueryPages(inv) ==
    OrderBy({id \in DOMAIN page :
                /\ page[id].inventory_id = inv
                /\ page[id].scan_id \in DOMAIN scan})

\* first_content_idx = None
NoIdx == -1

\* a loop that starts at the first page whenever a non-blank page exists
FirstContentIdxZero(pages) ==
    IF \E k \in 1..Len(pages) : ~is_blank(pages[k]) THEN 0 ELSE NoIdx

\* a search that yields the index after the first non-blank page
FirstContentIdxAfter(pages) ==
    IF \E k \in 1..Len(pages) : ~is_blank(pages[k])
    THEN CHOOSE k \in 1..Len(pages) :
              /\ ~is_blank(pages[k])
              /\ \A j \in 1..(k - 1) : is_blank(pages[j])
    ELSE NoIdx

\* "Find the first non-blank page": its 0-based index, NoIdx when there is none
FirstContentIdx(pages) ==
    IF \E k \in 1..Len(pages) : ~is_blank(pages[k])
    THEN (CHOOSE k \in 1..Len(pages) :
              /\ ~is_blank(pages[k])
              /\ \A j \in 1..(k - 1) : is_blank(pages[j])) - 1
    ELSE NoIdx

\* a lookup that finds no row
ExistingMethodNotFound(rows) == NoId

\* session.query(DocumentIdentificationMethod).filter(name == BASELINE_NAME).first()
\* over the rows in table order; NoId when no row matches
ExistingMethod(rows) ==
    LET hit == SelectSeq(rows, LAMBDA r : r.name = BASELINE_NAME)
    IN  IF hit = <<>> THEN NoId ELSE Head(hit).id

(***************************************************************************)
(* identify_documents_for_inventory: the body of the loop over the pages.  *)
(* e is the record of the function's locals, p the Page at position e.i.   *)
(***************************************************************************)
\* the locals before the loop
EngineLocals(inv, method_id, pages) ==
    [inventory_id |-> inv, method_id |-> method_id, pages |-> pages,
     first_content_idx |-> FirstContentIdx(pages),
     i |-> FirstContentIdx(pages),
     documents_created |-> 0, pages_processed |-> 0,
     current_document |-> NoId,
     empty_page_sequence |-> FALSE,
     previous_page_had_signature |-> FALSE,
     page_index |-> 0]

IdleLocals == EngineLocals(NoId, NoId, <<>>)

Decision(start, signature, empty) ==
    [start_new_document |-> start,
     previous_page_had_signature |-> signature,
     empty_page_sequence |-> empty]

\* Decide without the branch "elif previous_page_had_signature"
DecideIgnoringSignature(e, p) ==
    IF e.i = e.first_content_idx THEN
        Decision(TRUE, e.previous_page_had_signature, e.empty_page_sequence)
    ELSE IF is_blank(p) THEN
        Decision(FALSE, e.previous_page_had_signature, TRUE)
    ELSE IF e.empty_page_sequence /\ ~is_blank(p) THEN
        Decision(TRUE, e.previous_page_had_signature, FALSE)
    ELSE
        Decision(FALSE, e.previous_page_had_signature, FALSE)

\* Decide with a branch "elif page.is_blank" that does not mark the sequence
DecideIgnoringBlankRun(e, p) ==
    IF e.i = e.first_content_idx THEN
        Decision(TRUE, e.previous_page_had_signature, e.empty_page_sequence)
    ELSE IF e.previous_page_had_signature THEN
        Decision(~is_blank(p), IF ~is_blank(p) THEN FALSE ELSE TRUE, FALSE)
    ELSE IF is_blank(p) THEN
        Decision(FALSE, e.previous_page_had_signature, e.empty_page_sequence)
    ELSE IF e.empty_page_sequence /\ ~is_blank(p) THEN
        Decision(TRUE, e.previous_page_had_signature, FALSE)
    ELSE
        Decision(FALSE, e.previous_page_had_signature, FALSE)

\* Decide with the branch "elif page.is_blank" tested before the signature
DecideBlankFirst(e, p) ==
    IF e.i = e.first_content_idx THEN
        Decision(TRUE, e.previous_page_had_signature, e.empty_page_sequence)
    ELSE IF is_blank(p) THEN
        Decision(FALSE, e.previous_page_had_signature, TRUE)
    ELSE IF e.previous_page_had_signature THEN
        Decision(TRUE, FALSE, FALSE)
    ELSE IF e.empty_page_sequence /\ ~is_blank(p) THEN
        Decision(TRUE, e.previous_page_had_signature, FALSE)
    ELSE
        Decision(FALSE, e.previous_page_had_signature, FALSE)

\* Decide with an else branch that starts a document
DecideAlwaysNew(e, p) ==
    IF e.i = e.first_content_idx THEN
        Decision(TRUE, e.previous_page_had_signature, e.empty_page_sequence)
    ELSE IF e.previous_page_had_signature THEN
        Decision(~is_blank(p), IF ~is_blank(p) THEN FALSE ELSE TRUE, FALSE)
    ELSE IF is_blank(p) THEN
        Decision(FALSE, e.previous_page_had_signature, TRUE)
    ELSE IF e.empty_page_sequence /\ ~is_blank(p) THEN
        Decision(TRUE, e.previous_page_had_signature, FALSE)
    ELSE
        Decision(TRUE, e.previous_page_had_signature, FALSE)

\* Decide with a signature branch that clears the flag on a blank page too
DecideClearingOnBlank(e, p) ==
    IF e.i = e.first_content_idx THEN
        Decision(TRUE, e.previous_page_had_signature, e.empty_page_sequence)
    ELSE IF e.previous_page_had_signature THEN
        Decision(~is_blank(p), FALSE, FALSE)
    ELSE IF is_blank(p) THEN
        Decision(FALSE, e.previous_page_had_signature, TRUE)
    ELSE IF e.empty_page_sequence /\ ~is_blank(p) THEN
        Decision(TRUE, e.previous_page_had_signature, FALSE)
    ELSE
        Decision(FALSE, e.previous_page_had_signature, FALSE)

\* Decide with a signature branch that clears the flag without setting
\* start_new_document
DecideSignatureWithoutStart(e, p) ==
    IF e.i = e.first_content_idx THEN
        Decision(TRUE, e.previous_page_had_signature, e.empty_page_sequence)
    ELSE IF e.previous_page_had_signature THEN
        Decision(FALSE, IF ~is_blank(p) THEN FALSE ELSE TRUE, FALSE)
    ELSE IF is_blank(p) THEN
        Decision(FALSE, e.previous_page_had_signature, TRUE)
    ELSE IF e.empty_page_sequence /\ ~is_blank(p) THEN
        Decision(TRUE, e.previous_page_had_signature, FALSE)
    ELSE
        Decision(FALSE, e.previous_page_had_signature, FALSE)

\* Decide with a blank-run branch that does not set start_new_document
DecideBlankRunContinues(e, p) ==
    IF e.i = e.first_content_idx THEN
        Decision(TRUE, e.previous_page_had_signature, e.empty_page_sequence)
    ELSE IF e.previous_page_had_signature THEN
        Decision(~is_blank(p), IF ~is_blank(p) THEN FALSE ELSE TRUE, FALSE)
    ELSE IF is_blank(p) THEN
        Decision(FALSE, e.previous_page_had_signature, TRUE)
    ELSE IF e.empty_page_sequence /\ ~is_blank(p) THEN
        Decision(FALSE, e.previous_page_had_signature, FALSE)
    ELSE
        Decision(FALSE, e.previous_page_had_signature, FALSE)

\* Decide with a blank-run branch that leaves empty_page_sequence set
DecideBlankRunNotCleared(e, p) ==
    IF e.i = e.first_content_idx THEN
        Decision(TRUE, e.previous_page_had_signature, e.empty_page_sequence)
    ELSE IF e.previous_page_had_signature THEN
        Decision(~is_blank(p), IF ~is_blank(p) THEN FALSE ELSE TRUE, FALSE)
    ELSE IF is_blank(p) THEN
        Decision(FALSE, e.previous_page_had_signature, TRUE)
    ELSE IF e.empty_page_sequence /\ ~is_blank(p) THEN
        Decision(TRUE, e.previous_page_had_signature, e.empty_page_sequence)
    ELSE
        Decision(FALSE, e.previous_page_had_signature, FALSE)

\* Decide with an else branch that gives the last page of the query a
\* document of its own
DecideLastPageAlone(e, p) ==
    IF e.i = e.first_content_idx THEN
        Decision(TRUE, e.previous_page_had_signature, e.empty_page_sequence)
    ELSE IF e.previous_page_had_signature THEN
        Decision(~is_blank(p), IF ~is_blank(p) THEN FALSE ELSE TRUE, FALSE)
    ELSE IF is_blank(p) THEN
        Decision(FALSE, e.previous_page_had_signature, TRUE)
    ELSE IF e.empty_page_sequence /\ ~is_blank(p) THEN
        Decision(TRUE, e.previous_page_had_signature, FALSE)
    ELSE
        Decision(e.i + 1 = Len(e.pages), e.previous_page_had_signature, FALSE)

\* "Determine if we should start a new document": start_new_document and the
\* two running flags after the if/elif chain
Decide(e, p) ==
    IF e.i = e.first_content_idx THEN
        \* start first document with first non-blank page
        Decision(TRUE, e.previous_page_had_signature, e.empty_page_sequence)
    ELSE IF e.previous_page_had_signature THEN
        \* start new document on next non-blank page
        Decision(~is_blank(p), IF ~is_blank(p) THEN FALSE ELSE TRUE, FALSE)
    ELSE IF is_blank(p) THEN
        \* mark empty page sequence
        Decision(FALSE, e.previous_page_had_signature, TRUE)
    ELSE IF e.empty_page_sequence /\ ~is_blank(p) THEN
        \* non-blank page after empty sequence
        Decision(TRUE, e.previous_page_had_signature, FALSE)
    ELSE
        Decision(FALSE, e.previous_page_had_signature, FALSE)

\* a document made a part of the document before it
NewDocumentNested(id, e) ==
    [id |-> id, inventory_id |-> e.inventory_id, method_id |-> e.method_id,
     part_of_id |-> e.current_document, title |-> None,
     date_earliest_begin |-> None, date_latest_begin |-> None,
     date_earliest_end |-> None, date_latest_end |-> None, date_text |-> None]

\* Document(id=..., inventory_id=inventory.id, method_id=method_id); the
\* columns the constructor is not given are NULL
NewDocument(id, e) ==
    [id |-> id, inventory_id |-> e.inventory_id, method_id |-> e.method_id,
     part_of_id |-> NoId, title |-> None,
     date_earliest_begin |-> None, date_latest_begin |-> None,
     date_earliest_end |-> None, date_latest_end |-> None, date_text |-> None]

\* Page2Document(id=..., page_id=page.id, document_id=current_document.id,
\*               index=page_index)
NewPage2Document(id, p, doc, index) ==
    [id |-> id, page_id |-> p.id, document_id |-> doc, index |-> index]

\* the index given to the first page of a document just opened
FirstPageIndex == 0

\* an append that does not look at page.signatures
SignatureNeverSet(flag, p) == flag

\* the flag after a page has been appended: set by a page with signatures
SignatureAfterAppend(flag, p) == IF has_signatures(p) THEN TRUE ELSE flag

\* a test of page.signatures placed after the two branches
SignatureAfterSkipSet(flag, p) == IF has_signatures(p) THEN TRUE ELSE flag

\* the flag after a page that was not appended: "if page.signatures" stands
\* inside the two branches that append, so the flag is left as decided
SignatureAfterSkip(flag, p) == flag

\* "if start_new_document and not page.is_blank"
OpensDocument(d, p) == d.start_new_document /\ ~is_blank(p)

\* the elif without "and not page.is_blank"
ContinuesDocumentAnyPage(e, p) == e.current_document # NoId

\* "elif current_document and not page.is_blank"
ContinuesDocument(e, p) == e.current_document # NoId /\ ~is_blank(p)

\* a loop body without "page_index += 1"
IncrementedIndexStuck(page_index) == page_index

\* page_index += 1
IncrementedIndex(page_index) == page_index + 1

\* One pass through the loop body: the locals afterwards and the rows added to
\* the session; ids are the uuid4 values after the n already issued
LoopBody(e, n) ==
    LET p == e.pages[e.i + 1]
        d == Decide(e, p)
        flags == [e EXCEPT !.i = e.i + 1,
                           !.empty_page_sequence = d.empty_page_sequence,
                           !.previous_page_had_signature = d.previous_page_had_signature]
    IN  IF OpensDocument(d, p) THEN
            [eng |-> [flags EXCEPT
                        !.current_document = n + 1,
                        !.documents_created = e.documents_created + 1,
                        !.page_index = IncrementedIndex(FirstPageIndex),
                        !.pages_processed = e.pages_processed + 1,
                        !.previous_page_had_signature =
                            SignatureAfterAppend(d.previous_page_had_signature, p)],
             documents |-> <<NewDocument(n + 1, e)>>,
             links |-> <<NewPage2Document(n + 2, p, n + 1, FirstPageIndex)>>,
             uuid |-> n + 2]
        ELSE IF ContinuesDocument(e, p) THEN
            [eng |-> [flags EXCEPT
                        !.page_index = IncrementedIndex(e.page_index),
                        !.pages_processed = e.pages_processed + 1,
                        !.previous_page_had_signature =
                            SignatureAfterAppend(d.previous_page_had_signature, p)],
             documents |-> <<>>,
             links |-> <<NewPage2Document(n + 1, p, e.current_document, e.page_index)>>,
             uuid |-> n + 1]
        ELSE
            [eng |-> [flags EXCEPT
                        !.previous_page_had_signature =
                            SignatureAfterSkip(d.previous_page_had_signature, p)],
             documents |-> <<>>, links |-> <<>>, uuid |-> n]

(***************************************************************************)
(* The rows a session has added and not yet committed.                     *)
(***************************************************************************)
NoRows == [documents |-> <<>>, links |-> <<>>]

(***************************************************************************)
(* Initial state: the tables as the import scripts leave them, no method,  *)
(* no document.  Every page has a scan of its own; the import shapes are   *)
(*   "in_order"        one inventory, scan filenames ascending with the    *)
(*                     page ids;                                           *)
(*   "reversed"        one inventory, scan filenames descending with the   *)
(*                     page ids (uuid4 page ids carry no order);           *)
(*   "two_inventories" pages alternate between two inventories.            *)
(* The pages of the first shape take every value of is_blank, those of the *)
(* other two the values True and False.                                    *)
(***************************************************************************)
InventoryIds == {1, 2}

IsBlankValues == {"True", "False", None}

\* pandas reads an empty signature_marks cell as missing: None or a text
SignaturesValues == {None, "mark"}

ImportShapes == {"in_order", "reversed", "two_inventories"}

KnownBlankValues == {"True", "False"}

ShapeInventory(shape, id) ==
    IF shape = "two_inventories" /\ id % 2 = 0 THEN 2 ELSE 1

ShapeFilename(shape, id, n) ==
    IF shape = "reversed" THEN n + 1 - id ELSE id

TablesInit(shapes, blanks, sigs) ==
    /\ inventory = InventoryIds
    /\ \E n \in 0..MaxPages : \E shape \in shapes :
         \E b \in [1..n -> blanks] : \E g \in [1..n -> sigs] :
            /\ scan = [id \in 1..n |->
                         [filename |-> ShapeFilename(shape, id, n),
                          inventory_id |-> ShapeInventory(shape, id)]]
            /\ page = [id \in 1..n |->
                         [inventory_id |-> ShapeInventory(shape, id),
                          scan_id |-> id,
                          is_blank |-> b[id], signatures |-> g[id]]]

NoResult == [returned |-> FALSE]

\* no manifest has been served
NoResponse == [inventory |-> NoId, structures |-> <<>>]

DriverLocals(arg) ==
    [inventory_id |-> arg, method_id |-> NoId, inventories |-> <<>>, k |-> 0,
     total_documents |-> 0, total_pages |-> 0, returns |-> <<>>,
     result |-> NoResult]

RestInit ==
    /\ document_identification_method = <<>>
    /\ document = <<>>
    /\ page2document = <<>>
    /\ uuid = 0
    /\ session = [s \in Sessions |-> NoRows]
    /\ pc = [s \in Sessions |-> "idle"]
    /\ drv = [s \in Sessions |-> DriverLocals(NoId)]
    /\ eng = [s \in Sessions |-> IdleLocals]
    /\ stdout = <<>>
    /\ runs = 0
    /\ response = NoResponse

Init ==
    /\ \/ TablesInit({"in_order"}, IsBlankValues, SignaturesValues)
       \/ TablesInit(ImportShapes \ {"in_order"}, KnownBlankValues, SignaturesValues)
    /\ RestInit

(***************************************************************************)
(* identify_documents_baseline(inventory_id), step by step.                *)
(***************************************************************************)
\* the values of the inventory_id argument: None, the inventories, and an id
\* that no inventory has
ScopeArgs == {NoId} \cup InventoryIds \cup {9}

\* the call: a new session is made
Call(s) ==
    /\ \E arg \in ScopeArgs :
         drv' = [drv EXCEPT ![s] = DriverLocals(arg)]
    /\ pc' = [pc EXCEPT ![s] = "create_identification_method"]
    /\ session' = [session EXCEPT ![s] = NoRows]
    /\ eng' = [eng EXCEPT ![s] = IdleLocals]
    /\ runs' = runs + 1
    /\ UNCHANGED <<tables, document_identification_method, document,
                   page2document, uuid, stdout, response>>

\* the script is run
identify_documents_baseline(s) ==
    /\ pc[s] = "idle"
    /\ Call(s)

\* the script is run again after it has ended
run_again(s) ==
    /\ pc[s] = "done"
    /\ runs < MaxRuns
    /\ Call(s)

\* create_identification_method: the lookup, and the return of an existing row
create_identification_method(s) ==
    /\ pc[s] = "create_identification_method"
    /\ LET existing_method == ExistingMethod(document_identification_method)
       IN  IF existing_method # NoId
           THEN /\ stdout' = Append(stdout, [text |-> "Using existing method",
                                             id |-> existing_method])
                /\ drv' = [drv EXCEPT ![s].method_id = existing_method]
                /\ pc' = [pc EXCEPT ![s] = "query_inventories"]
           ELSE /\ pc' = [pc EXCEPT ![s] = "create_new_method"]
                /\ UNCHANGED <<stdout, drv>>
    /\ UNCHANGED <<tables, document_identification_method, document,
                   page2document, uuid, session, eng, runs, response>>

\* DocumentIdentificationMethod(id=str(uuid.uuid4()), name=...)
NewMethod(id) == [id |-> id, name |-> BASELINE_NAME]

\* create_identification_method: session.add(method); session.commit()
create_new_method(s) ==
    /\ pc[s] = "create_new_method"
    /\ document_identification_method' =
           Append(document_identification_method, NewMethod(uuid + 1))
    /\ uuid' = uuid + 1
    /\ stdout' = Append(stdout, [text |-> "Created new identification method",
                                 id |-> uuid + 1])
    /\ drv' = [drv EXCEPT ![s].method_id = uuid + 1]
    /\ pc' = [pc EXCEPT ![s] = "query_inventories"]
    /\ UNCHANGED <<tables, document, page2document, session, eng, runs, response>>

\* query = session.query(Inventory); if inventory_id: query = query.filter(...)
\* a scope that ignores the argument
InScopeOfAll(arg) == inventory

InScope(arg) ==
    IF arg # NoId THEN {v \in inventory : v = arg} ELSE inventory

\* the orders in which query.all() can list the rows
RECURSIVE Orders(_)
Orders(S) ==
    IF S = {} THEN {<<>>}
    ELSE UNION {{<<v>> \o q : q \in Orders(S \ {v})} : v \in S}

\* the summary in the case of "No inventories found to process"
EmptySummary ==
    [returned |-> TRUE, inventories_processed |-> 0, documents_created |-> 0,
     pages_processed |-> 0]

\* a summary that counts the inventories that yielded documents
SummaryOfNonEmpty(d) ==
    [returned |-> TRUE,
     inventories_processed |->
         Len(SelectSeq(d.returns, LAMBDA r : r.docs_created > 0)),
     documents_created |-> d.total_documents,
     pages_processed |-> d.total_pages, method_id |-> d.method_id]

Summary(d) ==
    [returned |-> TRUE, inventories_processed |-> Len(d.inventories),
     documents_created |-> d.total_documents,
     pages_processed |-> d.total_pages, method_id |-> d.method_id]

\* inventories = query.all(); if not inventories: return {...}
query_inventories(s) ==
    /\ pc[s] = "query_inventories"
    /\ \E inventories \in Orders(InScope(drv[s].inventory_id)) :
         IF inventories = <<>>
         THEN /\ drv' = [drv EXCEPT ![s].result = EmptySummary]
              /\ pc' = [pc EXCEPT ![s] = "done"]
         ELSE /\ drv' = [drv EXCEPT ![s].inventories = inventories]
              /\ pc' = [pc EXCEPT ![s] = "for_inventory"]
    /\ UNCHANGED <<tables, document_identification_method, document,
                   page2document, uuid, session, eng, stdout, runs, response>>

\* bookkeeping that keeps the counts of the last inventory only
ReturnedLastOnly(d, inv, docs_created, pages_processed) ==
    [d EXCEPT !.k = d.k + 1,
              !.total_documents = docs_created,
              !.total_pages = pages_processed,
              !.returns = Append(d.returns,
                                 [inventory_id |-> inv,
                                  docs_created |-> docs_created,
                                  pages_processed |-> pages_processed])]

\* the driver's bookkeeping when identify_documents_for_inventory returns
Returned(d, inv, docs_created, pages_processed) ==
    [d EXCEPT !.k = d.k + 1,
              !.total_documents = d.total_documents + docs_created,
              !.total_pages = d.total_pages + pages_processed,
              !.returns = Append(d.returns,
                                 [inventory_id |-> inv,
                                  docs_created |-> docs_created,
                                  pages_processed |-> pages_processed])]

\* identify_documents_for_inventory up to the loop: the page query and the
\* two early returns
identify_documents_for_inventory(s) ==
    /\ pc[s] = "for_inventory"
    /\ drv[s].k < Len(drv[s].inventories)
    /\ LET inv == drv[s].inventories[drv[s].k + 1]
           e == EngineLocals(inv, drv[s].method_id, QueryPages(inv))
       IN  /\ eng' = [eng EXCEPT ![s] = e]
           /\ IF e.pages = <<>> \/ e.first_content_idx = NoIdx
              THEN /\ drv' = [drv EXCEPT ![s] = Returned(drv[s], inv, 0, 0)]
                   /\ pc' = pc
              ELSE /\ pc' = [pc EXCEPT ![s] = "loop"]
                   /\ drv' = drv
    /\ UNCHANGED <<tables, document_identification_method, document,
                   page2document, uuid, session, stdout, runs, response>>

\* a flush that commits: every added row is durable at once
FlushCommits(pending, new) == [durable |-> pending \o new, pending |-> <<>>]

\* session.add(row) and session.flush(): the rows reach the database inside the
\* open transaction of the session; none of them is durable before the commit
Flush(pending, new) == [durable |-> <<>>, pending |-> pending \o new]

\* one pass through the loop body
loop_iteration(s) ==
    /\ pc[s] = "loop"
    /\ eng[s].i < Len(eng[s].pages)
    /\ LET r == LoopBody(eng[s], uuid)
           docs == Flush(session[s].documents, r.documents)
           links == Flush(session[s].links, r.links)
       IN  /\ eng' = [eng EXCEPT ![s] = r.eng]
           /\ session' = [session EXCEPT ![s].documents = docs.pending,
                                         ![s].links = links.pending]
           /\ document' = document \o docs.durable
           /\ page2document' = page2document \o links.durable
           /\ uuid' = r.uuid
    /\ UNCHANGED <<tables, document_identification_method, pc, drv, stdout, runs, response>>

\* a commit that replaces what the table held
CommitReplacing(table, rows) == rows

\* session.commit(): the rows of the transaction are inserted, the rows the
\* table holds stay
Commit(table, rows) == table \o rows

\* session.commit(); return documents_created, pages_processed
commit_and_return(s) ==
    /\ pc[s] = "loop"
    /\ eng[s].i = Len(eng[s].pages)
    /\ document' = Commit(document, session[s].documents)
    /\ page2document' = Commit(page2document, session[s].links)
    /\ session' = [session EXCEPT ![s] = NoRows]
    /\ drv' = [drv EXCEPT ![s] = Returned(drv[s], eng[s].inventory_id,
                                          eng[s].documents_created,
                                          eng[s].pages_processed)]
    /\ pc' = [pc EXCEPT ![s] = "for_inventory"]
    /\ UNCHANGED <<tables, document_identification_method, uuid, eng, stdout, runs, response>>

\* the return of the summary after the loop over the inventories
return_summary(s) ==
    /\ pc[s] = "for_inventory"
    /\ drv[s].k = Len(drv[s].inventories)
    /\ drv' = [drv EXCEPT ![s].result = Summary(drv[s])]
    /\ pc' = [pc EXCEPT ![s] = "done"]
    /\ UNCHANGED <<tables, document_identification_method, document,
                   page2document, uuid, session, eng, stdout, runs, response>>

Step(s) ==
    \/ identify_documents_baseline(s)
    \/ create_identification_method(s)
    \/ create_new_method(s)
    \/ query_inventories(s)
    \/ identify_documents_for_inventory(s)
    \/ loop_iteration(s)
    \/ commit_and_return(s)
    \/ return_summary(s)

Next == Step("w1")

Spec == Init /\ [][Next]_vars

(***************************************************************************)
(* The script run up to MaxRuns times, one run after the other, on a       *)
(* database whose method table may already hold rows: a method of another  *)
(* name, the baseline method of an earlier run, or both.                   *)
(***************************************************************************)
OtherMethod == [id |-> 101, name |-> "Other method"]

EarlierBaseline == [id |-> 102, name |-> BASELINE_NAME]

MethodTables ==
    {<<>>, <<OtherMethod>>, <<EarlierBaseline>>, <<OtherMethod, EarlierBaseline>>}

RunsInit ==
    /\ TablesInit({"two_inventories"}, KnownBlankValues, {None})
    /\ document_identification_method \in MethodTables
    /\ document = <<>>
    /\ page2document = <<>>
    /\ uuid = 0
    /\ session = [s \in Sessions |-> NoRows]
    /\ pc = [s \in Sessions |-> "idle"]
    /\ drv = [s \in Sessions |-> DriverLocals(NoId)]
    /\ eng = [s \in Sessions |-> IdleLocals]
    /\ stdout = <<>>
    /\ runs = 0
    /\ response = NoResponse

RunsNext == Step("w1") \/ run_again("w1")

SpecRuns == RunsInit /\ [][RunsNext]_vars

(***************************************************************************)
(* The method pages of the web application (app.py) next to the script:    *)
(* method_create and method_edit take the name from the form, strip it and *)
(* write it; a request is one transaction.                                 *)
(***************************************************************************)
MaxMethods == 2

\* the values of the form field "name"
FormNames == {"", " ", "Other method", " Other method ", BASELINE_NAME}

\* (request.form.get("name") or "").strip()
Strip(name) ==
    CASE name = " " -> ""
      [] name = " Other method " -> "Other method"
      [] OTHER -> name

\* POST /methods/new; an empty name is answered with 400 and changes nothing
method_create ==
    /\ Len(document_identification_method) < MaxMethods
    /\ \E form \in FormNames :
         /\ Strip(form) # ""
         /\ document_identification_method' =
                Append(document_identification_method,
                       [id |-> uuid + 1, name |-> Strip(form)])
    /\ uuid' = uuid + 1
    /\ UNCHANGED <<tables, document, page2document, session, pc, drv, eng,
                   stdout, runs, response>>

\* POST /method/<method_id>/edit; 404 for an unknown id, 400 for an empty name
method_edit ==
    /\ \E k \in 1..Len(document_identification_method) : \E form \in FormNames :
         /\ Strip(form) # ""
         /\ document_identification_method[k].name # Strip(form)
         /\ document_identification_method' =
                [document_identification_method EXCEPT ![k].name = Strip(form)]
    /\ UNCHANGED <<tables, document, page2document, uuid, session, pc, drv, eng,
                   stdout, runs, response>>

MethodsInit ==
    /\ TablesInit({"in_order"}, {"False"}, {None})
    /\ RestInit

MethodsNext == Step("w1") \/ method_create \/ method_edit

SpecMethods == MethodsInit /\ [][MethodsNext]_vars

(***************************************************************************)
(* Two batch workers: two processes run the script at the same time, each  *)
(* with a session of its own on the same database.  Every statement of a   *)
(* worker is a step, so the lookup and the insert of                       *)
(* create_identification_method of one worker interleave with the other's. *)
(***************************************************************************)
WorkersInit ==
    /\ TablesInit({"two_inventories"}, KnownBlankValues, {None})
    /\ RestInit

WorkersNext == \E s \in Sessions : Step(s)

SpecWorkers == WorkersInit /\ [][WorkersNext]_vars

(***************************************************************************)
(* One run of the script on a database that can fail and in a process that *)
(* can die.  A failing statement raises; neither function catches, so the  *)
(* exception leaves identify_documents_baseline through "finally:          *)
(* session.close()", which rolls the open transaction back, and no summary *)
(* is returned.  A process that dies never commits its open transaction.   *)
(***************************************************************************)
\* worker s is at a statement that talks to the database
AtStatement(s) ==
    \/ pc[s] \in {"create_identification_method", "create_new_method",
                  "query_inventories", "loop"}
    \/ pc[s] = "for_inventory" /\ drv[s].k < Len(drv[s].inventories)

\* an exception in the loop that is caught: the driver goes on with the next
\* inventory
RaiseCaught(p, d) ==
    IF p = "loop"
    THEN [pc |-> "for_inventory",
          drv |-> [d EXCEPT !.k = d.k + 1,
                            !.returns = Append(d.returns,
                                [inventory_id |-> d.inventories[d.k + 1],
                                 docs_created |-> 0, pages_processed |-> 0])]]
    ELSE [pc |-> "raised", drv |-> d]

\* where the driver is after an exception: out of the function, nothing
\* returned
Raise(p, d) == [pc |-> "raised", drv |-> d]

\* the statement raises (OperationalError, IntegrityError, ...)
storage_failure(s) ==
    /\ AtStatement(s)
    /\ session' = [session EXCEPT ![s] = NoRows]
    /\ pc' = [pc EXCEPT ![s] = Raise(pc[s], drv[s]).pc]
    /\ drv' = [drv EXCEPT ![s] = Raise(pc[s], drv[s]).drv]
    /\ UNCHANGED <<tables, document_identification_method, document,
                   page2document, uuid, eng, stdout, runs, response>>

\* the process dies
crash(s) ==
    /\ pc[s] \notin {"idle", "done", "raised", "crashed"}
    /\ session' = [session EXCEPT ![s] = NoRows]
    /\ pc' = [pc EXCEPT ![s] = "crashed"]
    /\ UNCHANGED <<tables, document_identification_method, document,
                   page2document, uuid, drv, eng, stdout, runs, response>>

FaultsInit ==
    /\ TablesInit({"two_inventories"}, KnownBlankValues, SignaturesValues)
    /\ RestInit

FaultsNext == Step("w1") \/ storage_failure("w1") \/ crash("w1")

SpecFaults == FaultsInit /\ [][FaultsNext]_vars

(***************************************************************************)
(* The IIIF manifest of an inventory (export.py), served by the web        *)
(* application from the committed tables: the table-of-contents ranges.    *)
(***************************************************************************)
\* doc.pages: the Page2Document rows of document d
DocPages(d) == SelectSeq(page2document, LAMBDA l : l.document_id = d.id)

\* float("inf"): a key after every index
NoPagesKey == MaxPages + 1

\* get_first_page_index(doc): min(p.index for p in doc.pages)
get_first_page_index(d) ==
    IF DocPages(d) = <<>> THEN NoPagesKey
    ELSE CHOOSE m \in {l.index : l \in Range(DocPages(d))} :
             \A l \in Range(DocPages(d)) : m <= l.index

\* sorted(docs, key=get_first_page_index): Python's sort is stable, rows of
\* equal keys keep the order in which they came
RECURSIVE SortedByFirstPageIndex(_)
SortedByFirstPageIndex(docs) ==
    IF docs = <<>> THEN <<>>
    ELSE LET least == CHOOSE k \in 1..Len(docs) :
                 /\ \A j \in 1..Len(docs) :
                       get_first_page_index(docs[k]) <= get_first_page_index(docs[j])
                 /\ \A j \in 1..(k - 1) :
                       get_first_page_index(docs[j]) > get_first_page_index(docs[k])
         IN  <<docs[least]>> \o
             SortedByFirstPageIndex(SubSeq(docs, 1, least - 1) \o
                                    SubSeq(docs, least + 1, Len(docs)))

\* the items of a document's range: the canvases of its pages by index, a
\* scan named once
RECURSIVE Canvases(_, _)
Canvases(links, seen) ==
    IF links = {} THEN <<>>
    ELSE LET l == CHOOSE a \in links : \A b \in links :
                      a.index < b.index \/ (a.index = b.index /\ a.id <= b.id)
             s == page[l.page_id].scan_id
         IN  IF s \in DOMAIN scan /\ scan[s].filename \notin seen
             THEN <<scan[s].filename>> \o
                  Canvases(links \ {l}, seen \cup {scan[s].filename})
             ELSE Canvases(links \ {l}, seen)

\* create_document_range(doc, doc_index) of a document without subdocuments
create_document_range(d, doc_index) ==
    [doc_index |-> doc_index, document |-> d.id,
     items |-> Canvases(Range(DocPages(d)), {})]

\* inventory.documents: the Document rows of the inventory as the relationship
\* loads them, here in the order of insertion; top_level_docs, sorted_docs and
\* the ranges of the table of contents
inventory_to_manifest_jsonld(inv) ==
    LET documents == SelectSeq(document, LAMBDA d : d.inventory_id = inv)
        top_level_docs == SelectSeq(documents, LAMBDA d : d.part_of_id = NoId)
        sorted_docs == SortedByFirstPageIndex(top_level_docs)
    IN  [inventory |-> inv,
         structures |-> [idx \in 1..Len(sorted_docs) |->
                            create_document_range(sorted_docs[idx], idx - 1)]]

\* GET /inventory/<inventory_number>/manifest; 404 for an unknown number
inventory_manifest ==
    /\ \E inv \in inventory : response' = inventory_to_manifest_jsonld(inv)
    /\ UNCHANGED <<tables, document_identification_method, document,
                   page2document, uuid, session, pc, drv, eng, stdout, runs>>

ManifestInit ==
    /\ TablesInit({"in_order"}, {"False"}, SignaturesValues)
    /\ RestInit

ManifestNext == Step("w1") \/ run_again("w1") \/ inventory_manifest

SpecManifest == ManifestInit /\ [][ManifestNext]_vars

(***************************************************************************)
(* Views of the tables used by the properties.  The properties read the    *)
(* columns themselves: a page is blank when its is_blank column is True, a *)
(* page is signed when its signatures column holds a non-empty text.       *)
(***************************************************************************)
AllDocuments == document \o session["w1"].documents \o session["w2"].documents

AllLinks == page2document \o session["w1"].links \o session["w2"].links

FlagTrue(row) == row.is_blank = "True"

Signed(row) == row.signatures \notin {None, ""}

\* the links of document d, in the order in which they were added
LinksOfDocument(d) == SelectSeq(AllLinks, LAMBDA l : l.document_id = d)

\* the 1-based position of page id in a list of Page rows, 0 when absent
Position(pages, id) ==
    IF \E k \in 1..Len(pages) : pages[k].id = id
    THEN CHOOSE k \in 1..Len(pages) : pages[k].id = id
    ELSE 0

\* the position of the non-blank page preceding position k, 0 when none
PrecedingContent(pages, k) ==
    IF \E j \in 1..(k - 1) : ~FlagTrue(pages[j])
    THEN CHOOSE j \in 1..(k - 1) :
             /\ ~FlagTrue(pages[j])
             /\ \A m \in (j + 1)..(k - 1) : FlagTrue(pages[m])
    ELSE 0

\* link l is the first link added to its document
FirstOfDocument(l) == Head(LinksOfDocument(l.document_id)) = l

\* the page ids of a set of links by ascending index
RECURSIVE ByIndex(_)
ByIndex(rows) ==
    IF rows = {} THEN <<>>
    ELSE LET m == CHOOSE a \in rows : \A b \in rows :
                      \/ a.index < b.index
                      \/ a.index = b.index /\ a.id <= b.id
         IN  <<m.page_id>> \o ByIndex(rows \ {m})

RECURSIVE ConcatPages(_)
ConcatPages(docs) ==
    IF docs = <<>> THEN <<>>
    ELSE ByIndex(Range(LinksOfDocument(Head(docs).id))) \o ConcatPages(Tail(docs))

\* the page lists of the documents of inventory inv, in creation order
Concatenation(inv) ==
    ConcatPages(SelectSeq(AllDocuments, LAMBDA d : d.inventory_id = inv))

\* identify_documents_for_inventory has returned for inventory inv
Processed(inv) ==
    \E s \in Sessions : \E r \in Range(drv[s].returns) : r.inventory_id = inv

\* session s has just executed the loop body for the page at 0-based index i
Iterated(s) ==
    /\ pc[s] = "loop"
    /\ eng[s].i < Len(eng[s].pages)
    /\ eng'[s] # eng[s]
    /\ eng'[s].i = eng[s].i + 1

CurrentPage(s) == eng[s].pages[eng[s].i + 1]

Finished == pc["w1"] = "done" /\ drv["w1"].result.returned

\* some link puts the page at position k of the query at index 0
LinkedAtZero(input, k) ==
    \E n \in 1..Len(AllLinks) :
        AllLinks[n].page_id = input[k].id /\ AllLinks[n].index = 0

\* the loop of identify_documents_for_inventory run to its end on engine
\* state e: the rows it adds
RECURSIVE RunLoop(_, _, _, _)
RunLoop(e, docs, links, n) ==
    IF e.i = Len(e.pages) THEN [documents |-> docs, links |-> links]
    ELSE CHOOSE rows \in {RunLoop(r.eng, docs \o r.documents, links \o r.links, r.uuid) :
                              r \in {LoopBody(e, n)}} : TRUE

\* per document of docs, in order, the <<page_id, index>> of its links
SegmentsOf(docs, links) ==
    [k \in 1..Len(docs) |->
        LET L == SelectSeq(links, LAMBDA l : l.document_id = docs[k].id)
        IN  [j \in 1..Len(L) |-> <<L[j].page_id, L[j].index>>]]

\* what identify_documents_for_inventory adds for the pages of a page query
Segmentation(pages) ==
    IF pages = <<>> \/ FirstContentIdx(pages) = NoIdx THEN <<>>
    ELSE LET r == RunLoop(EngineLocals(NoId, NoId, pages), <<>>, <<>>, 0)
         IN  SegmentsOf(r.documents, r.links)

\* the committed documents of inventory inv with their committed links
CommittedSegments(inv) ==
    SegmentsOf(SelectSeq(document, LAMBDA d : d.inventory_id = inv), page2document)

\* the inventories for which identify_documents_for_inventory returned to s
ReturnedTo(s) == {r.inventory_id : r \in Range(drv[s].returns)}

(***************************************************************************)
(* C1: in every document the indices of the Page2Document links are        *)
(* 0, 1, ..., n-1 in the order in which the links were added, and the      *)
(* linked pages follow one another in the order of the page query.         *)
(***************************************************************************)
C1_IndicesContiguous ==
    \A k \in 1..Len(AllDocuments) :
        LET d == AllDocuments[k]
            L == LinksOfDocument(d.id)
            input == QueryPages(d.inventory_id)
        IN  /\ \A j \in 1..Len(L) : L[j].index = j - 1
            /\ \A j \in 1..Len(L) : Position(input, L[j].page_id) > 0
            /\ \A j \in 1..(Len(L) - 1) :
                  Position(input, L[j].page_id) < Position(input, L[j + 1].page_id)

C1_Witness ==
    /\ Finished
    /\ Len(document) >= 2
    /\ \E k \in 1..Len(document) : Len(LinksOfDocument(document[k].id)) >= 3

(***************************************************************************)
(* C2: no Page2Document link references a page whose is_blank is True, and *)
(* a pass of the loop over such a page changes nothing but the position    *)
(* and the flags empty_page_sequence and previous_page_had_signature.      *)
(***************************************************************************)
C2_NoBlankLinked ==
    \A k \in 1..Len(AllLinks) : ~FlagTrue(PageRow(AllLinks[k].page_id))

C2_BlankOnlyFlips ==
    \A s \in Sessions :
        (Iterated(s) /\ FlagTrue(CurrentPage(s))) =>
            /\ session' = session
            /\ document' = document
            /\ page2document' = page2document
            /\ uuid' = uuid
            /\ eng'[s] = [eng[s] EXCEPT
                    !.i = eng[s].i + 1,
                    !.empty_page_sequence = eng'[s].empty_page_sequence,
                    !.previous_page_had_signature = eng'[s].previous_page_had_signature]

C2_BlankNeverAppended == [](C2_NoBlankLinked) /\ [][C2_BlankOnlyFlips]_vars

C2_Witness ==
    /\ Finished
    /\ \E inv \in inventory :
         LET input == QueryPages(inv)
         IN  \E k \in 2..(Len(input) - 1) :
                /\ FlagTrue(input[k])
                /\ \E a, b \in 1..Len(AllLinks) :
                      /\ AllLinks[a].page_id = input[k - 1].id
                      /\ AllLinks[b].page_id = input[k + 1].id

(***************************************************************************)
(* C3: the page lists of the documents of an inventory, concatenated in    *)
(* creation order and index order, are a subsequence of the page query     *)
(* (same order) without blank pages; the first element is the first        *)
(* non-blank page of the query, and it is there once the run has returned  *)
(* for an inventory that has a non-blank page.                             *)
(***************************************************************************)
C3_ConcatenationIsSubsequence ==
    \A inv \in inventory :
        LET input == QueryPages(inv)
            c == Concatenation(inv)
        IN  /\ \A j \in 1..Len(c) : Position(input, c[j]) > 0
            /\ \A j \in 1..(Len(c) - 1) :
                  Position(input, c[j]) < Position(input, c[j + 1])
            /\ \A j \in 1..Len(c) : ~FlagTrue(PageRow(c[j]))
            /\ c # <<>> =>
                  /\ PrecedingContent(input, Position(input, c[1])) = 0
                  /\ ~FlagTrue(input[Position(input, c[1])])
            /\ (Processed(inv) /\ \E j \in 1..Len(input) : ~FlagTrue(input[j]))
                  => c # <<>>

C3_Witness ==
    /\ Finished
    /\ \E inv \in inventory :
         LET input == QueryPages(inv)
             c == Concatenation(inv)
         IN  /\ Len(input) >= 4
             /\ input[1].id > input[2].id
             /\ FlagTrue(input[1])
             /\ \E k \in 3..(Len(input) - 1) : FlagTrue(input[k])
             /\ Len(c) = 2
             /\ Len(SelectSeq(document, LAMBDA d : d.inventory_id = inv)) = 2

(***************************************************************************)
(* C4: for an inventory without pages, or whose pages all have is_blank    *)
(* True, identify_documents_for_inventory returns (0, 0) and no Document   *)
(* or Page2Document row exists for the inventory; the summary of the       *)
(* driver counts every inventory in scope, such an inventory included.     *)
(***************************************************************************)
NoContent(inv) == \A id \in DOMAIN page :
    (page[id].inventory_id = inv /\ page[id].scan_id \in DOMAIN scan)
        => FlagTrue(page[id])

C4_EmptyInventoryIsNoOp ==
    \A s \in Sessions :
        /\ \A r \in Range(drv[s].returns) :
              NoContent(r.inventory_id) =>
                 /\ r.docs_created = 0
                 /\ r.pages_processed = 0
                 /\ \A k \in 1..Len(AllDocuments) :
                       AllDocuments[k].inventory_id # r.inventory_id
                 /\ \A k \in 1..Len(AllLinks) :
                       page[AllLinks[k].page_id].inventory_id # r.inventory_id
        /\ (pc[s] = "done" /\ drv[s].result.returned) =>
              /\ drv[s].result.inventories_processed =
                    Cardinality({v \in inventory :
                        drv[s].inventory_id = NoId \/ v = drv[s].inventory_id})
              /\ drv[s].inventories # <<>> =>
                    Len(drv[s].returns) = Len(drv[s].inventories)

C4_Witness ==
    /\ Finished
    /\ drv["w1"].inventory_id = NoId
    /\ drv["w1"].result.inventories_processed = 2
    /\ \E v, w \in inventory :
          /\ QueryPages(v) = <<>>
          /\ Len(QueryPages(w)) >= 2
          /\ NoContent(w)
    /\ \A r \in Range(drv["w1"].returns) :
          r.docs_created = 0 /\ r.pages_processed = 0

(***************************************************************************)
(* C5: the link of a non-blank page is the first link of a new document    *)
(* exactly when the page is the first non-blank page of the query, or the  *)
(* page before it is blank, or the preceding non-blank page is signed;     *)
(* otherwise the link is in the document of the preceding non-blank page.  *)
(* Every non-blank page the loop has passed has a link.                    *)
(***************************************************************************)
OpensCondition(input, k) ==
    \/ PrecedingContent(input, k) = 0
    \/ FlagTrue(input[k - 1])
    \/ Signed(input[PrecedingContent(input, k)])

C5_BoundaryRule ==
    /\ \A n \in 1..Len(AllLinks) :
          LET l == AllLinks[n]
              input == QueryPages(page[l.page_id].inventory_id)
              k == Position(input, l.page_id)
          IN  /\ k > 0
              /\ FirstOfDocument(l) <=> OpensCondition(input, k)
              /\ ~OpensCondition(input, k) =>
                    \E m \in 1..(n - 1) :
                        /\ AllLinks[m].page_id = input[PrecedingContent(input, k)].id
                        /\ AllLinks[m].document_id = l.document_id
    /\ \A s \in Sessions :
          pc[s] = "loop" =>
             \A j \in 1..eng[s].i :
                 ~FlagTrue(eng[s].pages[j]) =>
                     \E n \in 1..Len(AllLinks) :
                         AllLinks[n].page_id = eng[s].pages[j].id

C5_Witness ==
    /\ Finished
    /\ \E inv \in inventory :
         LET input == QueryPages(inv)
         IN  /\ Len(input) = 4
             /\ \A j \in 1..4 : ~FlagTrue(input[j])
             /\ Signed(input[2]) /\ ~Signed(input[1]) /\ ~Signed(input[3])
             /\ Len(document) = 2
             /\ Len(LinksOfDocument(document[1].id)) = 2
             /\ Len(LinksOfDocument(document[2].id)) = 2

(***************************************************************************)
(* C6: the non-blank page that follows a signed, linked page is the first  *)
(* page (index 0) of another document than the one holding the signed      *)
(* page, and rows once added are never changed.                            *)
(***************************************************************************)
C6_AfterSignature ==
    \A n \in 1..Len(AllLinks) :
        LET l == AllLinks[n]
            input == QueryPages(page[l.page_id].inventory_id)
            k == Position(input, l.page_id)
            a == PrecedingContent(input, k)
        IN  (k > 0 /\ a > 0 /\ Signed(input[a])) =>
               /\ l.index = 0
               /\ FirstOfDocument(l)
               /\ \A m \in 1..Len(AllLinks) :
                     AllLinks[m].page_id = input[a].id =>
                        AllLinks[m].document_id # l.document_id

C6_NextPageLinked ==
    \A inv \in inventory :
        LET input == QueryPages(inv)
        IN  Processed(inv) =>
               \A k \in 1..Len(input) :
                   (/\ ~FlagTrue(input[k])
                    /\ PrecedingContent(input, k) > 0
                    /\ Signed(input[PrecedingContent(input, k)]))
                       => LinkedAtZero(input, k)

C6_RowsStay ==
    /\ \A n \in 1..Len(AllLinks) :
          n <= Len(AllLinks') /\ AllLinks'[n] = AllLinks[n]
    /\ \A n \in 1..Len(AllDocuments) :
          n <= Len(AllDocuments') /\ AllDocuments'[n] = AllDocuments[n]

C6_SignatureEndsDocument ==
    [](C6_AfterSignature /\ C6_NextPageLinked) /\ [][C6_RowsStay]_vars

C6_Witness ==
    /\ Finished
    /\ \E a, b \in 1..Len(page2document) :
         LET la == page2document[a]
             lb == page2document[b]
             input == QueryPages(page[la.page_id].inventory_id)
         IN  /\ Position(input, lb.page_id) = Position(input, la.page_id) + 1
             /\ Signed(PageRow(la.page_id))
             /\ la.index = 1
             /\ lb.index = 0

(***************************************************************************)
(* C7: a non-blank page that comes after a blank page, with a non-blank    *)
(* page somewhere before the blank run, is the first page (index 0) of     *)
(* another document than the one holding that earlier page.                *)
(***************************************************************************)
C7_SeparatedPages ==
    \A n \in 1..Len(AllLinks) :
        LET l == AllLinks[n]
            input == QueryPages(page[l.page_id].inventory_id)
            k == Position(input, l.page_id)
            a == PrecedingContent(input, k)
        IN  (k > 1 /\ a > 0 /\ FlagTrue(input[k - 1])) =>
               /\ l.index = 0
               /\ FirstOfDocument(l)
               /\ \A m \in 1..Len(AllLinks) :
                     AllLinks[m].page_id = input[a].id =>
                        AllLinks[m].document_id # l.document_id

C7_NextPageLinked ==
    \A inv \in inventory :
        LET input == QueryPages(inv)
        IN  Processed(inv) =>
               \A k \in 2..Len(input) :
                   (/\ ~FlagTrue(input[k])
                    /\ FlagTrue(input[k - 1])
                    /\ PrecedingContent(input, k) > 0)
                       => LinkedAtZero(input, k)

C7_BlankRunIsBoundary == C7_SeparatedPages /\ C7_NextPageLinked

C7_Witness ==
    /\ Finished
    /\ \E inv \in inventory :
         LET input == QueryPages(inv)
         IN  /\ Len(input) = 4
             /\ ~FlagTrue(input[1]) /\ ~Signed(input[1])
             /\ FlagTrue(input[2]) /\ FlagTrue(input[3])
             /\ ~FlagTrue(input[4])
             /\ Len(document) = 2
             /\ \E n \in 1..Len(page2document) :
                   /\ page2document[n].page_id = input[4].id
                   /\ page2document[n].index = 0

(***************************************************************************)
(* C8: while previous_page_had_signature is set, a pass of the loop over a *)
(* blank page leaves it set, leaves empty_page_sequence false and adds no  *)
(* row; the pass over the next non-blank page adds exactly one document    *)
(* and its first link.  No document is without a link.                     *)
(***************************************************************************)
C8_PendingStep ==
    \A s \in Sessions :
        (Iterated(s) /\ eng[s].previous_page_had_signature) =>
            IF FlagTrue(CurrentPage(s))
            THEN /\ eng'[s].previous_page_had_signature
                 /\ ~eng'[s].empty_page_sequence
                 /\ ~eng[s].empty_page_sequence
                 /\ AllDocuments' = AllDocuments
                 /\ AllLinks' = AllLinks
            ELSE /\ Len(AllDocuments') = Len(AllDocuments) + 1
                 /\ Len(AllLinks') = Len(AllLinks) + 1
                 /\ LET l == AllLinks'[Len(AllLinks')]
                        d == AllDocuments'[Len(AllDocuments')]
                    IN  /\ l.page_id = CurrentPage(s).id
                        /\ l.document_id = d.id
                        /\ l.index = 0
                        /\ d.id # eng[s].current_document

C8_NoEmptyDocument ==
    \A k \in 1..Len(AllDocuments) : LinksOfDocument(AllDocuments[k].id) # <<>>

C8_BlankRunAfterSignature == [](C8_NoEmptyDocument) /\ [][C8_PendingStep]_vars

C8_Witness ==
    /\ Finished
    /\ \E inv \in inventory :
         LET input == QueryPages(inv)
         IN  /\ Len(input) = 4
             /\ ~FlagTrue(input[1]) /\ Signed(input[1])
             /\ FlagTrue(input[2]) /\ FlagTrue(input[3])
             /\ ~FlagTrue(input[4])
             /\ Len(document) = 2
             /\ Len(page2document) = 2

(***************************************************************************)
(* C9: when the query of an inventory yields n >= 1 pages, none blank and  *)
(* none signed, the run returns (1, n) and the one document of the         *)
(* inventory links the n pages in query order at the indices 0..n-1.       *)
(***************************************************************************)
PlainInput(input) ==
    /\ input # <<>>
    /\ \A j \in 1..Len(input) : ~FlagTrue(input[j]) /\ ~Signed(input[j])

C9_OneDocument ==
    \A s \in Sessions : \A r \in Range(drv[s].returns) :
        LET input == QueryPages(r.inventory_id)
            docs == SelectSeq(AllDocuments, LAMBDA d : d.inventory_id = r.inventory_id)
        IN  PlainInput(input) =>
               /\ r.docs_created = 1
               /\ r.pages_processed = Len(input)
               /\ Len(docs) = 1
               /\ LET L == LinksOfDocument(docs[1].id)
                  IN  /\ Len(L) = Len(input)
                      /\ \A j \in 1..Len(L) :
                            L[j].page_id = input[j].id /\ L[j].index = j - 1

C9_Witness ==
    /\ Finished
    /\ \E r \in Range(drv["w1"].returns) :
          /\ PlainInput(QueryPages(r.inventory_id))
          /\ Len(QueryPages(r.inventory_id)) >= 3
          /\ \E j \in 1..3 : QueryPages(r.inventory_id)[j].is_blank = None
          /\ r.docs_created = 1

(***************************************************************************)
(* C10: every call of create_identification_method returns the same method *)
(* id as the calls before it, and once a call has returned the method      *)
(* table holds exactly one row with the baseline name.                     *)
(***************************************************************************)
BaselineRows ==
    {k \in 1..Len(document_identification_method) :
        document_identification_method[k].name = BASELINE_NAME}

C10_MethodIdempotent ==
    /\ \A a, b \in 1..Len(stdout) : stdout[a].id = stdout[b].id
    /\ stdout # <<>> =>
          /\ Cardinality(BaselineRows) = 1
          /\ \A k \in BaselineRows :
                document_identification_method[k].id = stdout[1].id
    /\ \A s \in Sessions :
          drv[s].method_id # NoId => drv[s].method_id = stdout[Len(stdout)].id

C10_Witness ==
    /\ Len(stdout) = 2
    /\ stdout[1].text = "Created new identification method"
    /\ stdout[2].text = "Using existing method"
    /\ Len(document_identification_method) = 2
    /\ pc["w1"] = "done"

(***************************************************************************)
(* C11: the method table never holds two rows of the same name, whatever   *)
(* create_identification_method, method_create and method_edit have done.  *)
(***************************************************************************)
C11_UniqueMethodNames ==
    \A a, b \in 1..Len(document_identification_method) :
        document_identification_method[a].name = document_identification_method[b].name
            => a = b

(***************************************************************************)
(* C12: two workers running create_identification_method at the same time  *)
(* never leave two baseline rows, and both obtain the same method id.      *)
(***************************************************************************)
C12_OneMethodForBothWorkers ==
    /\ Cardinality(BaselineRows) <= 1
    /\ \A s, t \in Sessions :
         drv[s].method_id # NoId /\ drv[t].method_id # NoId
            => drv[s].method_id = drv[t].method_id

(***************************************************************************)
(* C13: the rows of an inventory are committed all or none.  In every      *)
(* state the committed documents of an inventory, with their committed     *)
(* links, are none at all or the whole segmentation of the inventory; they *)
(* are the whole of it once identify_documents_for_inventory has returned, *)
(* and none when the run crashed or failed before that; after a crash or a *)
(* failure no uncommitted row is left.                                     *)
(***************************************************************************)
C13_AllOrNothing ==
    /\ \A inv \in inventory :
         /\ CommittedSegments(inv) \in {<<>>, Segmentation(QueryPages(inv))}
         /\ inv \in ReturnedTo("w1")
                => CommittedSegments(inv) = Segmentation(QueryPages(inv))
         /\ inv \notin ReturnedTo("w1") => CommittedSegments(inv) = <<>>
    /\ \A n \in 1..Len(page2document) :
         \E k \in 1..Len(document) : document[k].id = page2document[n].document_id
    /\ pc["w1"] \in {"raised", "crashed"} => session["w1"] = NoRows

\* the run died in the loop of the second inventory after two documents with
\* their links were added for it; the first inventory is committed
C13_Witness ==
    /\ pc["w1"] \in {"raised", "crashed"}
    /\ eng["w1"].documents_created >= 2
    /\ eng["w1"].pages_processed >= 2
    /\ eng["w1"].inventory_id \notin ReturnedTo("w1")
    /\ \E inv \in ReturnedTo("w1") : Len(CommittedSegments(inv)) >= 1

RECURSIVE Repeat(_, _)
Repeat(seq, k) == IF k = 0 THEN <<>> ELSE seq \o Repeat(seq, k - 1)

\* the number of committed links of page id
LinkCount(id) ==
    Cardinality({n \in 1..Len(page2document) : page2document[n].page_id = id})

\* the committed rows of inventory inv are k copies of its segmentation
Copies(inv, k) ==
    /\ CommittedSegments(inv) = Repeat(Segmentation(QueryPages(inv)), k)
    /\ \A id \in DOMAIN page :
         page[id].inventory_id = inv => LinkCount(id) \in {0, k}

C14_KCopies == \A inv \in inventory : \E k \in 0..runs : Copies(inv, k)

\* a step leaves every committed row as it is, and the commit of a run over
\* inventory inv adds one more copy of the segmentation of inv
C14_RunAddsCopy ==
    /\ Len(document') >= Len(document)
    /\ \A n \in 1..Len(document) : document'[n] = document[n]
    /\ Len(page2document') >= Len(page2document)
    /\ \A n \in 1..Len(page2document) : page2document'[n] = page2document[n]
    /\ \A inv \in inventory :
         /\ Len(drv'["w1"].returns) = Len(drv["w1"].returns) + 1
         /\ drv'["w1"].returns[Len(drv'["w1"].returns)].inventory_id = inv
         => \A one \in {Segmentation(QueryPages(inv))} :
                /\ CommittedSegments(inv)' = CommittedSegments(inv) \o one
                /\ \A id \in DOMAIN page :
                      page[id].inventory_id = inv
                         => LinkCount(id)' = LinkCount(id) +
                               (IF \E k \in 1..Len(one) : \E j \in 1..Len(one[k]) :
                                       one[k][j][1] = id
                                THEN 1 ELSE 0)

(***************************************************************************)
(* C14: a run over an inventory that earlier runs have processed leaves    *)
(* every committed row as it is and adds one more set of documents with    *)
(* the same page lists and indices: after k runs the inventory has k times *)
(* the documents of one run and every assigned page has k links.           *)
(***************************************************************************)
C14_RerunAddsParallelSet == []C14_KCopies /\ [][C14_RunAddsCopy]_vars

\* two runs over an inventory whose segmentation is one document of two
\* pages: two documents, two links on each of the pages
C14_Witness ==
    /\ Finished
    /\ runs = 2
    /\ \E inv \in inventory :
         /\ Len(Segmentation(QueryPages(inv))) = 1
         /\ Len(Segmentation(QueryPages(inv))[1]) = 2
         /\ Len(CommittedSegments(inv)) = 2
         /\ Cardinality({id \in DOMAIN page :
                            page[id].inventory_id = inv /\ LinkCount(id) = 2}) = 2
         /\ Copies(inv, 2)

(***************************************************************************)
(* C15: every result of identify_documents_baseline holds the four fields  *)
(* inventories_processed, documents_created, pages_processed and           *)
(* method_id, for every scope, the scope that matches no inventory         *)
(* included.                                                               *)
(***************************************************************************)
C15_SummaryHasFourFields ==
    \A s \in Sessions :
        drv[s].result.returned
            => {"inventories_processed", "documents_created",
                "pages_processed", "method_id"} \subseteq DOMAIN drv[s].result

RECURSIVE SumDocuments(_)
SumDocuments(returns) ==
    IF returns = <<>> THEN 0
    ELSE Head(returns).docs_created + SumDocuments(Tail(returns))

RECURSIVE SumPages(_)
SumPages(returns) ==
    IF returns = <<>> THEN 0
    ELSE Head(returns).pages_processed + SumPages(Tail(returns))

(***************************************************************************)
(* C16: in the summary of a completed run documents_created is the number  *)
(* of Document rows the run inserted and pages_processed the number of     *)
(* Page2Document rows, each the sum of the counts returned per inventory,  *)
(* which are the rows inserted for that inventory; inventories_processed   *)
(* is the number of inventories in scope, those without a document         *)
(* included.                                                               *)
(***************************************************************************)
C16_SummaryCounts ==
    Finished =>
        LET d == drv["w1"]
        IN  /\ d.result.documents_created = Len(document)
            /\ d.result.pages_processed = Len(page2document)
            /\ d.result.documents_created = SumDocuments(d.returns)
            /\ d.result.pages_processed = SumPages(d.returns)
            /\ d.result.inventories_processed = Cardinality(InScope(d.inventory_id))
            /\ Len(d.returns) = Cardinality(InScope(d.inventory_id))
            /\ \A k \in 1..Len(d.returns) :
                  LET inv == d.returns[k].inventory_id
                  IN  /\ d.returns[k].docs_created =
                            Cardinality({n \in 1..Len(document) :
                                            document[n].inventory_id = inv})
                      /\ d.returns[k].pages_processed =
                            Cardinality({n \in 1..Len(page2document) :
                                            page[page2document[n].page_id].inventory_id = inv})

\* a run over two inventories: one yields documents, the other none, and the
\* summary counts both
C16_Witness ==
    /\ Finished
    /\ drv["w1"].result.inventories_processed = 2
    /\ drv["w1"].returns[1].docs_created >= 1
    /\ drv["w1"].returns[1].pages_processed >= 2
    /\ drv["w1"].returns[2].docs_created = 0
    /\ \E id \in DOMAIN page :
         page[id].inventory_id = drv["w1"].returns[2].inventory_id

\* the columns of a Document row that the engine leaves NULL
Unset(d) ==
    /\ d.part_of_id = NoId
    /\ d.title = None
    /\ d.date_earliest_begin = None /\ d.date_latest_begin = None
    /\ d.date_earliest_end = None /\ d.date_latest_end = None
    /\ d.date_text = None

C17_Fields ==
    /\ \A n \in 1..Len(AllDocuments) :
         LET d == AllDocuments[n]
         IN  /\ Unset(d)
             /\ d.inventory_id \in inventory
             /\ \A l \in Range(LinksOfDocument(d.id)) :
                   page[l.page_id].inventory_id = d.inventory_id
             /\ \E k \in BaselineRows :
                   document_identification_method[k].id = d.method_id
    /\ \A s \in Sessions : \A n \in 1..Len(session[s].documents) :
         /\ session[s].documents[n].inventory_id = eng[s].inventory_id
         /\ session[s].documents[n].inventory_id = drv[s].inventories[drv[s].k + 1]
         /\ session[s].documents[n].method_id = drv[s].method_id
         /\ drv[s].method_id # NoId

C17_RowsStay ==
    /\ Len(AllDocuments') >= Len(AllDocuments)
    /\ \A n \in 1..Len(AllDocuments) : AllDocuments'[n] = AllDocuments[n]

(***************************************************************************)
(* C17: every Document row the engine creates has the inventory_id of the  *)
(* inventory being processed, the method_id resolved at the start of the   *)
(* run, no part_of_id, no title and no date; no later step changes a row.  *)
(***************************************************************************)
C17_DocumentFields == []C17_Fields /\ [][C17_RowsStay]_vars

\* the documents of one inventory are committed and the engine has added two
\* documents for the next inventory
C17_Witness ==
    /\ pc["w1"] = "loop"
    /\ Len(document) >= 1
    /\ Len(session["w1"].documents) >= 2
    /\ drv["w1"].k = 1

\* the two workers were called on scopes that share no inventory
DisjointScopes ==
    /\ pc["w1"] # "idle" /\ pc["w2"] # "idle"
    /\ InScope(drv["w1"].inventory_id) \cap InScope(drv["w2"].inventory_id) = {}

\* the inventories in the scope of some worker
Scoped == InScope(drv["w1"].inventory_id) \cup InScope(drv["w2"].inventory_id)

\* every link joins a page and a document of one inventory
NoCrossLink ==
    \A n \in 1..Len(AllLinks) : \A k \in 1..Len(AllDocuments) :
        AllLinks[n].document_id = AllDocuments[k].id
            => page[AllLinks[n].page_id].inventory_id = AllDocuments[k].inventory_id

(***************************************************************************)
(* C18: two workers on scopes that share no inventory, interleaved in any  *)
(* way, commit for every inventory the documents and links (partition and  *)
(* indices) that the engine yields for that inventory alone, and no link   *)
(* joins a page of one inventory to a document of another.                 *)
(***************************************************************************)
C18_DisjointWorkers ==
    DisjointScopes =>
        /\ NoCrossLink
        /\ \A inv \in inventory :
             CommittedSegments(inv) \in {<<>>, Segmentation(QueryPages(inv))}
        /\ pc["w1"] = "done" /\ pc["w2"] = "done"
              => \A inv \in inventory :
                    CommittedSegments(inv) =
                        IF inv \in Scoped THEN Segmentation(QueryPages(inv)) ELSE <<>>

\* both workers are done, each has committed a document, and the second
\* document was created between the first document and one of its links
C18_Witness ==
    /\ DisjointScopes
    /\ pc["w1"] = "done" /\ pc["w2"] = "done"
    /\ Len(document) = 2
    /\ \E a, b \in 1..2 : \E n \in 1..Len(page2document) :
         /\ document[a].id < document[b].id
         /\ page2document[n].document_id = document[a].id
         /\ page2document[n].id > document[b].id
         /\ document[a].inventory_id # document[b].inventory_id

\* the run has raised: no summary, nothing uncommitted, the inventories that
\* returned before are committed whole and the others have no document
C19_AfterFailure ==
    pc["w1"] = "raised" =>
        /\ ~drv["w1"].result.returned
        /\ session["w1"] = NoRows
        /\ \A j \in 1..Len(drv["w1"].inventories) :
             LET inv == drv["w1"].inventories[j]
             IN  CommittedSegments(inv) =
                    IF j <= drv["w1"].k THEN Segmentation(QueryPages(inv)) ELSE <<>>
        /\ Len(drv["w1"].returns) = drv["w1"].k

\* a step in the loop that is neither a pass through the body nor the commit
\* ends the run, and a run that has raised takes no further step
C19_FailureEndsRun ==
    /\ pc["w1"] = "loop" /\ eng'["w1"] = eng["w1"] /\ document' = document
          => /\ pc'["w1"] \in {"raised", "crashed"}
             /\ session'["w1"] = NoRows
             /\ drv'["w1"] = drv["w1"]
    /\ pc["w1"] = "raised" => UNCHANGED vars

(***************************************************************************)
(* C19: a storage failure while inventory k is processed rolls back the    *)
(* rows of that inventory and ends the run without a summary; the          *)
(* documents of the inventories before k stay committed and no document is *)
(* created for inventory k or a later one.                                 *)
(***************************************************************************)
C19_FailureAbortsRun == []C19_AfterFailure /\ [][C19_FailureEndsRun]_vars

\* the run raised in the loop of its second inventory with a document pending
C19_Witness ==
    /\ pc["w1"] = "raised"
    /\ drv["w1"].k = 1
    /\ Len(drv["w1"].inventories) = 2
    /\ eng["w1"].inventory_id = drv["w1"].inventories[2]
    /\ eng["w1"].documents_created >= 1
    /\ Len(document) >= 1

\* the pages of a query with every NULL is_blank replaced by False
NullAsFalse(pages) ==
    [k \in 1..Len(pages) |->
        IF pages[k].is_blank = None THEN [pages[k] EXCEPT !.is_blank = "False"]
        ELSE pages[k]]

(***************************************************************************)
(* C20: a page whose is_blank is NULL is treated as a page whose is_blank  *)
(* is False: the documents and links committed for an inventory are those  *)
(* the engine yields for the same pages with every NULL replaced by False. *)
(***************************************************************************)
C20_NullIsNotBlank ==
    \A inv \in inventory :
        /\ Segmentation(QueryPages(inv)) = Segmentation(NullAsFalse(QueryPages(inv)))
        /\ Processed(inv)
              => CommittedSegments(inv) = Segmentation(NullAsFalse(QueryPages(inv)))

\* pages NULL, NULL, True, NULL: the first NULL page opens the first document,
\* the second is appended to it, the last ends the blank run and opens the
\* second document
C20_Witness ==
    /\ Finished
    /\ Len(page) = 4
    /\ \A id \in {1, 2, 4} : page[id].is_blank = None /\ ~has_signatures(page[id])
    /\ page[3].is_blank = "True"
    /\ CommittedSegments(1) = << <<<<1, 0>>, <<2, 1>>>>, <<<<4, 0>>>> >>

\* the page of the link that session s added last
LastAppended(s) == page[session[s].links[Len(session[s].links)].page_id]

\* past the first content page the flag tells whether the page appended last
\* carries signatures
C21_FlagIsLastPage ==
    \A s \in Sessions :
        pc[s] = "loop" /\ eng[s].i > eng[s].first_content_idx
            => /\ session[s].links # <<>>
               /\ eng[s].previous_page_had_signature
                     <=> has_signatures(LastAppended(s))

\* the flag rises only when a page with signatures is appended and falls only
\* when a non-blank page opens a document in the signature branch
C21_FlagChanges ==
    \A s \in Sessions :
        Iterated(s) =>
            /\ ~eng[s].previous_page_had_signature /\ eng'[s].previous_page_had_signature
                  => /\ has_signatures(CurrentPage(s))
                     /\ Len(session'[s].links) = Len(session[s].links) + 1
            /\ eng[s].previous_page_had_signature /\ ~eng'[s].previous_page_had_signature
                  => /\ ~is_blank(CurrentPage(s))
                     /\ eng'[s].documents_created = eng[s].documents_created + 1
            /\ eng[s].previous_page_had_signature /\ is_blank(CurrentPage(s))
                  => eng'[s].previous_page_had_signature

(***************************************************************************)
(* C21: at the decision point of every page after the first content page   *)
(* previous_page_had_signature is true exactly when the page appended last *)
(* carries signatures; the flag is set only by appending such a page and   *)
(* cleared only when a non-blank page opens a document after it.           *)
(***************************************************************************)
C21_SignatureFlag == []C21_FlagIsLastPage /\ [][C21_FlagChanges]_vars

\* a signature page, then a blank page, and the flag still stands at the
\* decision point of the page after them
C21_Witness ==
    /\ pc["w1"] = "loop"
    /\ eng["w1"].i >= 2
    /\ eng["w1"].i < Len(eng["w1"].pages)
    /\ is_blank(eng["w1"].pages[eng["w1"].i])
    /\ session["w1"].links # <<>>
    /\ has_signatures(LastAppended("w1"))
    /\ eng["w1"].previous_page_had_signature

(***************************************************************************)
(* C22: in every document a page with signatures is the last page: no link *)
(* follows the link of a signature page in its document, so a document     *)
(* holds at most one signature page.                                       *)
(***************************************************************************)
C22_SignaturePageIsLast ==
    \A k \in 1..Len(AllDocuments) :
        LET L == LinksOfDocument(AllDocuments[k].id)
        IN  /\ \A j \in 1..(Len(L) - 1) : ~Signed(page[L[j].page_id])
            /\ Cardinality({j \in 1..Len(L) : Signed(page[L[j].page_id])}) <= 1

\* a committed document of two pages ends with a signature page and the page
\* next to it, also signed, is the only page of the document after it
C22_Witness ==
    /\ Finished
    /\ \E a, b \in 1..Len(document) :
         LET La == LinksOfDocument(document[a].id)
             Lb == LinksOfDocument(document[b].id)
         IN  /\ Len(La) = 2 /\ Len(Lb) = 1
             /\ Signed(page[La[2].page_id])
             /\ Signed(page[Lb[1].page_id])
             /\ Lb[1].id = La[2].id + 2

(***************************************************************************)
(* C23: every document holds at least one page, and the pages at           *)
(* consecutive indices of a document are neighbours in the page query of   *)
(* its inventory: no page, blank or not, lies between them.                *)
(***************************************************************************)
C23_AdjacentBlock ==
    \A k \in 1..Len(AllDocuments) :
        LET d == AllDocuments[k]
            L == LinksOfDocument(d.id)
            input == QueryPages(d.inventory_id)
        IN  /\ Len(L) >= 1
            /\ \A j \in 1..(Len(L) - 1) :
                  /\ L[j + 1].index = L[j].index + 1
                  /\ Position(input, L[j].page_id) > 0
                  /\ Position(input, L[j + 1].page_id) =
                        Position(input, L[j].page_id) + 1

\* the pages of the query are content, blank, content, content: the blank
\* page separates a document of one page from a document of two
C23_Witness ==
    /\ Finished
    /\ Len(document) = 2
    /\ \E inv \in inventory :
         LET input == QueryPages(inv)
         IN  /\ Len(input) = 4
             /\ is_blank(input[2])
             /\ CommittedSegments(inv) =
                    << <<<<input[1].id, 0>>>>,
                       <<<<input[3].id, 0>>, <<input[4].id, 1>>>> >>

\* the number of links, pending or committed, of page id
LinksOfPage(id) == Cardinality({n \in 1..Len(AllLinks) : AllLinks[n].page_id = id})

\* the positions of the non-blank pages of a page query
ContentPositions(input) == {k \in 1..Len(input) : ~is_blank(input[k])}

(***************************************************************************)
(* C24: when identify_documents_for_inventory has returned, every          *)
(* non-blank page of the page query has exactly one link, pages_processed  *)
(* is the number of non-blank pages, and documents_created lies between 1  *)
(* and pages_processed when a non-blank page exists.                       *)
(***************************************************************************)
C24_EveryContentPageOnce ==
    \A k \in 1..Len(drv["w1"].returns) :
        LET r == drv["w1"].returns[k]
            input == QueryPages(r.inventory_id)
        IN  /\ \A j \in ContentPositions(input) : LinksOfPage(input[j].id) = 1
            /\ r.pages_processed = Cardinality(ContentPositions(input))
            /\ ContentPositions(input) # {}
                  => r.docs_created >= 1 /\ r.docs_created <= r.pages_processed
            /\ ContentPositions(input) = {} => r.docs_created = 0

\* an inventory of four pages, a blank one before the three non-blank ones,
\* has returned with three pages in two documents
C24_Witness ==
    \E k \in 1..Len(drv["w1"].returns) :
        LET r == drv["w1"].returns[k]
            input == QueryPages(r.inventory_id)
        IN  /\ Len(input) = 4
            /\ is_blank(input[1])
            /\ Cardinality(ContentPositions(input)) = 3
            /\ r.pages_processed = 3
            /\ r.docs_created = 2

\* the pages of a query with the signatures of every blank page cleared
ClearBlankSignatures(pages) ==
    [k \in 1..Len(pages) |->
        IF is_blank(pages[k]) THEN [pages[k] EXCEPT !.signatures = None]
        ELSE pages[k]]

C25_SameSegmentation ==
    \A inv \in inventory :
        /\ Segmentation(QueryPages(inv)) =
              Segmentation(ClearBlankSignatures(QueryPages(inv)))
        /\ Processed(inv)
              => CommittedSegments(inv) =
                    Segmentation(ClearBlankSignatures(QueryPages(inv)))

\* a pass over a blank page does not raise the flag
C25_BlankNeverSets ==
    \A s \in Sessions :
        Iterated(s) /\ is_blank(CurrentPage(s))
            => (eng'[s].previous_page_had_signature
                   => eng[s].previous_page_had_signature)

(***************************************************************************)
(* C25: signatures on a blank page have no effect: a blank page never sets *)
(* previous_page_had_signature, and the documents and links of an          *)
(* inventory are those of the same pages with the signatures of every      *)
(* blank page cleared.                                                     *)
(***************************************************************************)
C25_BlankSignaturesIgnored == []C25_SameSegmentation /\ [][C25_BlankNeverSets]_vars

\* content, a blank page with signatures, content, content: the run has put
\* the last two pages into one document
C25_Witness ==
    /\ Finished
    /\ \E inv \in inventory :
         LET input == QueryPages(inv)
         IN  /\ Len(input) = 4
             /\ is_blank(input[2]) /\ has_signatures(input[2])
             /\ \A k \in {1, 3, 4} : ~is_blank(input[k]) /\ ~has_signatures(input[k])
             /\ Len(CommittedSegments(inv)) = 2
             /\ Len(CommittedSegments(inv)[2]) = 2

\* at the decision point of a page: empty_page_sequence stands only after a
\* blank page and never together with previous_page_had_signature
C26_AtDecisionPoint ==
    \A s \in Sessions :
        pc[s] = "loop" =>
            /\ eng[s].empty_page_sequence
                  => /\ eng[s].i > eng[s].first_content_idx
                     /\ is_blank(eng[s].pages[eng[s].i])
            /\ ~(eng[s].empty_page_sequence /\ eng[s].previous_page_had_signature)

\* a pass over a non-blank page leaves empty_page_sequence false, and a pass
\* that leaves it true was over a blank page with no signature pending
C26_AfterPass ==
    \A s \in Sessions :
        Iterated(s) =>
            /\ ~is_blank(CurrentPage(s)) => ~eng'[s].empty_page_sequence
            /\ eng'[s].empty_page_sequence
                  => /\ is_blank(CurrentPage(s))
                     /\ ~eng[s].previous_page_had_signature
                     /\ ~eng'[s].previous_page_had_signature

(***************************************************************************)
(* C26: after a non-blank page empty_page_sequence is false; it is true at *)
(* a decision point only if the page before was blank and no signature     *)
(* boundary was pending when that page was processed; it is never true     *)
(* together with previous_page_had_signature at a decision point.          *)
(***************************************************************************)
C26_EmptyPageSequence == []C26_AtDecisionPoint /\ [][C26_AfterPass]_vars

\* the decision point of a non-blank page after a blank page, one that carries
\* signatures itself and followed an unsigned page: empty_page_sequence stands
C26_Witness ==
    /\ pc["w1"] = "loop"
    /\ eng["w1"].i >= eng["w1"].first_content_idx + 2
    /\ eng["w1"].i < Len(eng["w1"].pages)
    /\ eng["w1"].empty_page_sequence
    /\ ~is_blank(eng["w1"].pages[eng["w1"].i + 1])
    /\ has_signatures(eng["w1"].pages[eng["w1"].i])

(***************************************************************************)
(* C27: every Page2Document link joins a page and a document of the same   *)
(* inventory, whatever pages the page table holds: the link's document     *)
(* exists and its inventory_id is the inventory_id of the link's page.     *)
(***************************************************************************)
C27_LinkWithinInventory ==
    \A n \in 1..Len(AllLinks) :
        /\ AllLinks[n].page_id \in DOMAIN page
        /\ \E k \in 1..Len(AllDocuments) :
              /\ AllDocuments[k].id = AllLinks[n].document_id
              /\ AllDocuments[k].inventory_id = page[AllLinks[n].page_id].inventory_id

\* the pages of two inventories alternate in the page table and the run over
\* both has committed a document of two pages for each
C27_Witness ==
    /\ Finished
    /\ Len(page) = 4
    /\ page[1].inventory_id # page[2].inventory_id
    /\ \A inv \in inventory :
         /\ Len(CommittedSegments(inv)) = 1
         /\ Len(CommittedSegments(inv)[1]) = 2

\* the rows a step adds to a table (or to the rows pending for it)
Added(old, new) == SubSeq(new, Len(old) + 1, Len(new))

\* a step of a run called with a specific inventory id adds rows for that
\* inventory only, and no step changes a row of any inventory or table
C28_Frame ==
    /\ UNCHANGED tables
    /\ Len(AllDocuments') >= Len(AllDocuments)
    /\ Len(AllLinks') >= Len(AllLinks)
    /\ \A n \in 1..Len(AllDocuments) : AllDocuments'[n] = AllDocuments[n]
    /\ \A n \in 1..Len(AllLinks) : AllLinks'[n] = AllLinks[n]
    /\ drv["w1"].inventory_id # NoId
          => /\ \A d \in Range(Added(AllDocuments, AllDocuments')) :
                   d.inventory_id = drv["w1"].inventory_id
             /\ \A l \in Range(Added(AllLinks, AllLinks')) :
                   page[l.page_id].inventory_id = drv["w1"].inventory_id

(***************************************************************************)
(* C28: a run called with a specific inventory id creates Document and     *)
(* Page2Document rows for that inventory only and leaves the rows of every *)
(* other inventory as they are; no step of a run changes the Page, Scan or *)
(* Inventory table.                                                        *)
(***************************************************************************)
C28_ScopedRun == [][C28_Frame]_vars

\* after a run that gave both inventories a document, a run called for
\* inventory 1 has added a second document for it and none for inventory 2
C28_Witness ==
    /\ Finished
    /\ runs = 2
    /\ drv["w1"].inventory_id = 1
    /\ Len(CommittedSegments(1)) = 2
    /\ Len(CommittedSegments(2)) = 1

\* the documents and links session s has added for the inventory in progress
PendingSegments(s) == SegmentsOf(session[s].documents, session[s].links)

\* the pages of the query that the loop of session s has passed
Passed(s) == SubSeq(eng[s].pages, 1, eng[s].i)

\* what the engine has added after the first i pages of s followed by t is
\* what it adds for those i pages alone
C29_PrefixSegmentation ==
    \A s \in Sessions :
        pc[s] = "loop" => PendingSegments(s) = Segmentation(Passed(s))

\* a pass keeps the groups made so far and adds a page to the last of them
\* or opens a new one
C29_Extends ==
    \A s \in Sessions :
        Iterated(s) =>
            \A old \in {PendingSegments(s)} : \A new \in {PendingSegments(s)'} :
                \/ new = old
                \/ /\ ~is_blank(CurrentPage(s))
                   /\ Len(new) = Len(old) + 1
                   /\ SubSeq(new, 1, Len(old)) = old
                   /\ Len(new[Len(new)]) = 1
                \/ /\ ~is_blank(CurrentPage(s))
                   /\ Len(new) = Len(old) /\ Len(old) >= 1
                   /\ SubSeq(new, 1, Len(old) - 1) = SubSeq(old, 1, Len(old) - 1)
                   /\ Len(new[Len(new)]) = Len(old[Len(old)]) + 1
                   /\ SubSeq(new[Len(new)], 1, Len(old[Len(old)])) = old[Len(old)]

(***************************************************************************)
(* C29: the segmentation is prefix-stable: after the pages s of a query    *)
(* s followed by t the engine has made the groups, in the order and with   *)
(* the indices, that it makes for s alone; the pages of t extend the last  *)
(* group or open new ones, and blank pages at the end change nothing.      *)
(***************************************************************************)
C29_PrefixStable == []C29_PrefixSegmentation /\ [][C29_Extends]_vars

\* three pages passed, two groups made, and the fourth page, not blank, is
\* about to extend the second group
C29_Witness ==
    /\ pc["w1"] = "loop"
    /\ eng["w1"].i = 3
    /\ Len(eng["w1"].pages) = 4
    /\ Len(PendingSegments("w1")) = 2
    /\ ~is_blank(eng["w1"].pages[4])
    /\ ~eng["w1"].previous_page_had_signature
    /\ ~eng["w1"].empty_page_sequence

\* the position in the page query of inventory inv of the first page of the
\* committed document id
FirstPosition(inv, id) ==
    LET input == QueryPages(inv)
        at == {Position(input, l.page_id) :
                  l \in {m \in Range(page2document) : m.document_id = id}}
    IN  CHOOSE p \in at : \A q \in at : p <= q

(***************************************************************************)
(* C30: in the manifest of an inventory the ranges of the top-level        *)
(* documents stand in the order of the pages: a document whose pages come  *)
(* earlier in the page sequence of the inventory is listed before one      *)
(* whose pages come later.                                                 *)
(***************************************************************************)
C30_RangesInPageOrder ==
    \A a, b \in 1..Len(response.structures) :
        FirstPosition(response.inventory, response.structures[a].document)
            < FirstPosition(response.inventory, response.structures[b].document)
        => a < b

====
